---- MODULE Spec2Model ----
(***************************************************************************)
(* A model of the PDF dark-mode converter (backend/pdf_processor_pikepdf.py *)
(* driven by backend/cli.py).                                              *)
(*                                                                         *)
(* Python floats are modelled as exact rationals <<n, d>> (d > 0, lowest   *)
(* terms); content streams are sequences of one-character strings.         *)
(***************************************************************************)
EXTENDS Integers, Sequences, FiniteSets, TLC

VARIABLES
    theme,      \* the theme argument handed to __init__
    bg_color,   \* self.bg_color
    pc,         \* position of the running call
    input_doc,  \* the parsed form of input_bytes
    pdf,        \* self.pdf: the pages being mutated in place
    page_no,    \* pages the loop of process_pdf has visited
    result,     \* what process_pdf returned, or how it ended
    exit_code,  \* the exit code of cli.main
    out_file,   \* the output file cli.main wrote
    call,       \* a direct call of one helper: [fn, args]
    ret         \* what that call returned

vars == <<theme, bg_color, pc, input_doc, pdf, page_no, result, exit_code, out_file, call, ret>>

\* the state of a document run, untouched by a direct call of a helper
docVars == <<input_doc, pdf, page_no, result, exit_code, out_file>>

None == "None"

\* no document: what a variable that holds a document is before it gets one
Nothing == [status |-> "None", pages |-> <<>>]

\* a document of the given pages, and a failure in its place
Doc(pages) == [status |-> "ok", pages |-> pages]

Failure(kind) == [status |-> kind, pages |-> <<>>]

\* a page that has had no underlay added
NoUnderlay == [fill |-> <<>>, rect |-> <<>>]

\* a MediaBox the page does not carry itself
Inherited == <<>>

(***************************************************************************)
(* Bounds of the model.                                                    *)
(***************************************************************************)
GridN == 10
CmykN == 3
MaxPages == 2
MaxFrags == 2

(***************************************************************************)
(* Exact rational arithmetic.                                              *)
(***************************************************************************)
RECURSIVE GCD(_, _)
GCD(a, b) == IF b = 0 THEN a ELSE GCD(b, a % b)

Abs(x) == IF x < 0 THEN -x ELSE x

Q(n, d) ==
    LET g == GCD(Abs(n), Abs(d))
        s == IF d < 0 THEN -1 ELSE 1
    IN  <<(s * n) \div g, (s * d) \div g>>

QInt(n) == <<n, 1>>

QAdd(x, y) ==
    LET g == GCD(x[2], y[2])
    IN  Q(x[1] * (y[2] \div g) + y[1] * (x[2] \div g), (x[2] \div g) * y[2])

QNeg(x) == <<-x[1], x[2]>>

QSub(x, y) == QAdd(x, QNeg(y))

QMul(x, y) ==
    LET g1 == GCD(Abs(x[1]), y[2])
        g2 == GCD(Abs(y[1]), x[2])
    IN  IF x[1] = 0 \/ y[1] = 0 THEN <<0, 1>>
        ELSE <<(x[1] \div g1) * (y[1] \div g2), (x[2] \div g2) * (y[2] \div g1)>>

QDiv(x, y) == QMul(x, IF y[1] < 0 THEN <<-y[2], -y[1]>> ELSE <<y[2], y[1]>>)

QLt(x, y) ==
    LET g == GCD(x[2], y[2])
    IN  x[1] * (y[2] \div g) < y[1] * (x[2] \div g)

QLe(x, y) == ~QLt(y, x)

QMin(x, y) == IF QLt(y, x) THEN y ELSE x

QMax(x, y) == IF QLt(x, y) THEN y ELSE x

QMax3(x, y, z) == QMax(QMax(x, y), z)

QMin3(x, y, z) == QMin(QMin(x, y), z)

QAbs(x) == <<Abs(x[1]), x[2]>>

\* floor(x): \div rounds toward minus infinity
QFloor(x) == x[1] \div x[2]

\* Python's x % m for m > 0
QMod(x, m) == QSub(x, QMul(QInt(QFloor(QDiv(x, m))), m))

\* a decimal literal n / 10^k
Dec(n, d) == Q(n, d)

Zero == <<0, 1>>
One == <<1, 1>>

(***************************************************************************)
(* __init__: the theme table and the fallback.                             *)
(***************************************************************************)
themes ==
    [classic  |-> [r |-> 0,  g |-> 0,  b |-> 0],
     claude   |-> [r |-> 42, g |-> 37, b |-> 34],
     chatgpt  |-> [r |-> 52, g |-> 53, b |-> 65],
     sepia    |-> [r |-> 40, g |-> 35, b |-> 25],
     midnight |-> [r |-> 25, g |-> 30, b |-> 45],
     forest   |-> [r |-> 25, g |-> 35, b |-> 30]]

ThemeIds == DOMAIN themes

\* theme arguments a caller may pass: the six ids and some that are not
ThemeArgs == ThemeIds \cup {"Classic", "Claude"}

\* a lookup that ignores the case of the first letter
ThemesGetIgnoreCase(t) ==
    IF t \in DOMAIN themes THEN themes[t]
    ELSE IF t = "Classic" THEN themes["classic"]
    ELSE IF t = "Claude" THEN themes["claude"]
    ELSE themes["classic"]

\* self.themes.get(theme, self.themes["classic"])
ThemesGet(t) == IF t \in DOMAIN themes THEN themes[t] ELSE themes["classic"]

\* the background as the three quotients bg / 255.0
BgRGB(bg) == <<Q(bg.r, 255), Q(bg.g, 255), Q(bg.b, 255)>>

(***************************************************************************)
(* The colour mapper.                                                      *)
(***************************************************************************)
\* the luminance with the weights of red and green exchanged
LuminanceSwapped(r, g, b) ==
    QAdd(QAdd(QMul(Dec(587, 1000), r), QMul(Dec(299, 1000), g)),
         QMul(Dec(114, 1000), b))

\* brightness = 0.299 * r + 0.587 * g + 0.114 * b
Luminance(r, g, b) ==
    QAdd(QAdd(QMul(Dec(299, 1000), r), QMul(Dec(587, 1000), g)),
         QMul(Dec(114, 1000), b))

_rgb_to_hsv(r, g, b) ==
    LET max_val == QMax3(r, g, b)
        min_val == QMin3(r, g, b)
        diff    == QSub(max_val, min_val)
        h == IF diff = Zero THEN Zero
             ELSE IF max_val = r
                  THEN QMod(QAdd(QMul(QInt(60), QDiv(QSub(g, b), diff)), QInt(360)), QInt(360))
             ELSE IF max_val = g
                  THEN QMod(QAdd(QMul(QInt(60), QDiv(QSub(b, r), diff)), QInt(120)), QInt(360))
             ELSE QMod(QAdd(QMul(QInt(60), QDiv(QSub(r, g), diff)), QInt(240)), QInt(360))
        s == IF max_val = Zero THEN Zero ELSE QDiv(diff, max_val)
    IN  <<QDiv(h, QInt(360)), s, max_val>>

_hsv_to_rgb(h0, s, v) ==
    LET h == QMul(h0, QInt(360))
        c == QMul(v, s)
        x == QMul(c, QSub(One, QAbs(QSub(QMod(QDiv(h, QInt(60)), QInt(2)), One))))
        m == QSub(v, c)
        rgb == IF QLe(Zero, h) /\ QLt(h, QInt(60)) THEN <<c, x, Zero>>
               ELSE IF QLe(QInt(60), h) /\ QLt(h, QInt(120)) THEN <<x, c, Zero>>
               ELSE IF QLe(QInt(120), h) /\ QLt(h, QInt(180)) THEN <<Zero, c, x>>
               ELSE IF QLe(QInt(180), h) /\ QLt(h, QInt(240)) THEN <<Zero, x, c>>
               ELSE IF QLe(QInt(240), h) /\ QLt(h, QInt(300)) THEN <<x, Zero, c>>
               ELSE <<c, Zero, x>>
    IN  <<QAdd(rgb[1], m), QAdd(rgb[2], m), QAdd(rgb[3], m)>>

\* min(max(x, 0), 1)
Clamp01(x) == QMin(QMax(x, Zero), One)

\* the near-white test written >= instead of >
NearWhiteInclusive(brightness) == QLe(Dec(93, 100), brightness)

\* brightness > 0.93
NearWhite(brightness) == QLt(Dec(93, 100), brightness)

\* the near-black test with the saturation comparison reversed
NearBlackSaturated(brightness, s) == QLt(brightness, Dec(15, 100)) /\ QLt(Dec(3, 10), s)

\* brightness < 0.15 and s < 0.3
NearBlackGray(brightness, s) == QLt(brightness, Dec(15, 100)) /\ QLt(s, Dec(3, 10))

_transform_rgb(bg, r, g, b) ==
    LET brightness == Luminance(r, g, b)
        hsv == _rgb_to_hsv(r, g, b)
        h == hsv[1]
        s == hsv[2]
        v == hsv[3]
    IN  IF NearWhite(brightness) THEN BgRGB(bg)
        ELSE IF NearBlackGray(brightness, s)
             THEN <<Dec(98, 100), Dec(98, 100), Dec(98, 100)>>
        ELSE IF QLt(brightness, Dec(15, 100))
             THEN LET v1 == QAdd(Dec(65, 100), QMul(QDiv(v, Dec(15, 100)), Dec(2, 10)))
                      s1 == QMin(QMul(s, Dec(11, 10)), One)
                      n  == _hsv_to_rgb(h, s1, v1)
                  IN  <<Clamp01(n[1]), Clamp01(n[2]), Clamp01(n[3])>>
        ELSE IF QLt(brightness, Dec(4, 10))
             THEN _hsv_to_rgb(h, QMul(s, Dec(85, 100)),
                              QAdd(Dec(75, 100), QMul(QSub(v, Dec(15, 100)), Dec(8, 10))))
        ELSE IF QLt(brightness, Dec(6, 10))
             THEN _hsv_to_rgb(h, QMul(s, Dec(9, 10)),
                              QAdd(Dec(65, 100), QMul(QSub(v, Dec(4, 10)), One)))
        ELSE _hsv_to_rgb(h, s, QAdd(Dec(5, 10), QMul(v, Dec(5, 10))))

_transform_grayscale(bg, gray) ==
    IF QLt(Dec(93, 100), gray)
    THEN QDiv(QAdd(QAdd(QMul(Dec(299, 1000), QInt(bg.r)), QMul(Dec(587, 1000), QInt(bg.g))),
                   QMul(Dec(114, 1000), QInt(bg.b))), QInt(255))
    ELSE IF QLt(gray, Dec(15, 100)) THEN Dec(98, 100)
    ELSE IF QLt(gray, Dec(4, 10))
         THEN QAdd(Dec(75, 100), QMul(QSub(gray, Dec(15, 100)), Dec(8, 10)))
    ELSE IF QLt(gray, Dec(6, 10))
         THEN QAdd(Dec(65, 100), QMul(QSub(gray, Dec(4, 10)), One))
    ELSE QAdd(Dec(5, 10), QMul(gray, Dec(5, 10)))

\* r = (1 - c) * (1 - k), g = (1 - m) * (1 - k), b = (1 - y) * (1 - k)
CmykToRgb(c, m, y, k) ==
    <<QMul(QSub(One, c), QSub(One, k)),
      QMul(QSub(One, m), QSub(One, k)),
      QMul(QSub(One, y), QSub(One, k))>>

\* the conversion back to CMYK with K taken from the smallest channel
RgbToCmykMinK(n) ==
    LET new_k == QSub(One, QMin3(n[1], n[2], n[3]))
    IN  IF QLt(new_k, One)
        THEN <<QDiv(QSub(QSub(One, n[1]), new_k), QSub(One, new_k)),
               QDiv(QSub(QSub(One, n[2]), new_k), QSub(One, new_k)),
               QDiv(QSub(QSub(One, n[3]), new_k), QSub(One, new_k)),
               new_k>>
        ELSE <<Zero, Zero, Zero, new_k>>

\* the conversion back to CMYK of _transform_cmyk
RgbToCmyk(n) ==
    IF n[1] = Zero /\ n[2] = Zero /\ n[3] = Zero THEN <<Zero, Zero, Zero, One>>
    ELSE LET new_k == QSub(One, QMax3(n[1], n[2], n[3]))
         IN  IF QLt(new_k, One)
             THEN <<QDiv(QSub(QSub(One, n[1]), new_k), QSub(One, new_k)),
                    QDiv(QSub(QSub(One, n[2]), new_k), QSub(One, new_k)),
                    QDiv(QSub(QSub(One, n[3]), new_k), QSub(One, new_k)),
                    new_k>>
             ELSE <<Zero, Zero, Zero, new_k>>

_transform_cmyk(bg, c, m, y, k) ==
    LET rgb == CmykToRgb(c, m, y, k)
    IN  RgbToCmyk(_transform_rgb(bg, rgb[1], rgb[2], rgb[3]))

(***************************************************************************)
(* Text: characters, float() and the '.4f' format.                         *)
(***************************************************************************)
Digits == {"0", "1", "2", "3", "4", "5", "6", "7", "8", "9"}

\* \s within the characters a stream of the model holds
Whitespace == {" ", "\n", "\t", "\r"}

Letters ==
    {"a", "b", "c", "d", "e", "f", "g", "h", "i", "j", "k", "l", "m", "n", "o", "p",
     "q", "r", "s", "t", "u", "v", "w", "x", "y", "z",
     "A", "B", "C", "D", "E", "F", "G", "H", "I", "J", "K", "L", "M", "N", "O", "P",
     "Q", "R", "S", "T", "U", "V", "W", "X", "Y", "Z"}

\* \w
WordChars == Digits \cup Letters \cup {"_"}

DigitVal(c) ==
    CASE c = "0" -> 0 [] c = "1" -> 1 [] c = "2" -> 2 [] c = "3" -> 3 [] c = "4" -> 4
      [] c = "5" -> 5 [] c = "6" -> 6 [] c = "7" -> 7 [] c = "8" -> 8 [] c = "9" -> 9

DigitChar(n) == <<"0", "1", "2", "3", "4", "5", "6", "7", "8", "9">>[n + 1]

RECURSIVE Pow10(_)
Pow10(k) == IF k = 0 THEN 1 ELSE 10 * Pow10(k - 1)

\* the text s[i..j-1]
Slice(s, i, j) == SubSeq(s, i, j - 1)

RECURSIVE DigitsToInt(_)
DigitsToInt(s) ==
    IF s = <<>> THEN 0 ELSE 10 * DigitsToInt(SubSeq(s, 1, Len(s) - 1)) + DigitVal(s[Len(s)])

\* position of the first "." of s, Len(s) + 1 when it has none
RECURSIVE DotAt(_, _)
DotAt(s, i) == IF i > Len(s) \/ s[i] = "." THEN i ELSE DotAt(s, i + 1)

\* float(text) of a matched operand: digits with at most one "."
ParseFloat(s) ==
    LET d == DotAt(s, 1)
        frac == Slice(s, d + 1, Len(s) + 1)
    IN  QAdd(QInt(DigitsToInt(Slice(s, 1, d))), Q(DigitsToInt(frac), Pow10(Len(frac))))

RECURSIVE IntToChars(_)
IntToChars(n) == IF n < 10 THEN <<DigitChar(n)>> ELSE IntToChars(n \div 10) \o <<DigitChar(n % 10)>>

\* x * 10^4 rounded to the nearest integer, a tie to the even one (x >= 0)
RoundScaled(x) ==
    LET t == QMul(x, QInt(10000))
        f == QFloor(t)
        twice == QSub(QMul(t, QInt(2)), QInt(2 * f))
    IN  IF QLt(twice, One) THEN f
        ELSE IF QLt(One, twice) THEN f + 1
        ELSE IF f % 2 = 0 THEN f ELSE f + 1

\* f"{x:.4f}"
Format4(x) ==
    LET n == RoundScaled(QAbs(x))
        frac == n % 10000
    IN  (IF x[1] < 0 THEN <<"-">> ELSE <<>>) \o IntToChars(n \div 10000) \o <<".">>
        \o <<DigitChar(frac \div 1000), DigitChar((frac \div 100) % 10),
             DigitChar((frac \div 10) % 10), DigitChar(frac % 10)>>

(***************************************************************************)
(* The regular expressions of _transform_content_stream and re.sub.        *)
(***************************************************************************)
\* end of the longest run of characters of set cs that starts at i
RECURSIVE RunEnd(_, _, _)
RunEnd(s, i, cs) == IF i <= Len(s) /\ s[i] \in cs THEN RunEnd(s, i + 1, cs) ELSE i

\* (\d*\.?\d+) at i, to be followed by \s: the end of the operand, 0 for no match
NumLeadingDotEnd(s, i) ==
    LET a == RunEnd(s, i, Digits)
        b == IF a <= Len(s) /\ s[a] = "." THEN RunEnd(s, a + 1, Digits) ELSE a
    IN  IF a <= Len(s) /\ s[a] = "." /\ b > a + 1 THEN b
        ELSE IF a > i THEN a
        ELSE 0

\* (\d+\.?\d*) at i, to be followed by \s: the end of the operand, 0 for no match
NumLeadingDigitEnd(s, i) ==
    LET a == RunEnd(s, i, Digits)
    IN  IF a = i THEN 0
        ELSE IF a <= Len(s) /\ s[a] = "." THEN RunEnd(s, a + 1, Digits)
        ELSE a

NumEnd(s, i, form) ==
    IF form = "leading_dot" THEN NumLeadingDotEnd(s, i) ELSE NumLeadingDigitEnd(s, i)

\* F applied to the value of e, which is computed once
Bind(e, F(_)) == CHOOSE r \in {F(v) : v \in {e}} : TRUE

\* n times (number)\s+ from i: [ok, groups, pos]
RECURSIVE MatchOperands(_, _, _, _)
MatchOperands(s, i, n, form) ==
    IF n = 0 THEN [ok |-> TRUE, groups |-> <<>>, pos |-> i]
    ELSE Bind(NumEnd(s, i, form), LAMBDA e :
         Bind(IF e = 0 THEN 0 ELSE RunEnd(s, e, Whitespace), LAMBDA w :
            IF e = 0 \/ w = e THEN [ok |-> FALSE, groups |-> <<>>, pos |-> i]
            ELSE Bind(MatchOperands(s, w, n - 1, form), LAMBDA rest :
                    [ok |-> rest.ok, groups |-> <<Slice(s, i, e)>> \o rest.groups,
                     pos |-> rest.pos])))

\* the six patterns, in the order they are applied
Patterns ==
    << [n |-> 3, form |-> "leading_dot",   op |-> <<"r", "g">>, boundary |-> FALSE],
       [n |-> 3, form |-> "leading_dot",   op |-> <<"R", "G">>, boundary |-> FALSE],
       [n |-> 1, form |-> "leading_digit", op |-> <<"g">>,      boundary |-> TRUE],
       [n |-> 1, form |-> "leading_digit", op |-> <<"G">>,      boundary |-> TRUE],
       [n |-> 4, form |-> "leading_digit", op |-> <<"k">>,      boundary |-> TRUE],
       [n |-> 4, form |-> "leading_digit", op |-> <<"K">>,      boundary |-> TRUE] >>

\* the pattern matched at i: [ok, groups, pos], pos the end of the match
MatchAt(s, i, pat) ==
    Bind(MatchOperands(s, i, pat.n, pat.form), LAMBDA m :
        IF /\ m.ok
           /\ m.pos + Len(pat.op) - 1 <= Len(s)
           /\ Slice(s, m.pos, m.pos + Len(pat.op)) = pat.op
           /\ (pat.boundary =>
                 (m.pos + Len(pat.op) > Len(s) \/ s[m.pos + Len(pat.op)] \notin WordChars))
        THEN [ok |-> TRUE, groups |-> m.groups, pos |-> m.pos + Len(pat.op)]
        ELSE [ok |-> FALSE, groups |-> <<>>, pos |-> i])

\* the operand texts as numbers: float(match.group(i))
Floats(groups) == [i \in DOMAIN groups |-> ParseFloat(groups[i])]

_replace_rgb(bg, groups, operator) ==
    Bind(Floats(groups), LAMBDA a :
    Bind(_transform_rgb(bg, a[1], a[2], a[3]), LAMBDA n :
        Format4(n[1]) \o <<" ">> \o Format4(n[2]) \o <<" ">> \o Format4(n[3]) \o <<" ">>
        \o operator))

_replace_gray(bg, groups, operator) ==
    Bind(Floats(groups), LAMBDA a :
        Format4(_transform_grayscale(bg, a[1])) \o <<" ">> \o operator \o <<" ">>)

_replace_cmyk(bg, groups, operator) ==
    Bind(Floats(groups), LAMBDA a :
    Bind(_transform_cmyk(bg, a[1], a[2], a[3], a[4]), LAMBDA n :
        Format4(n[1]) \o <<" ">> \o Format4(n[2]) \o <<" ">> \o Format4(n[3]) \o <<" ">>
        \o Format4(n[4]) \o <<" ">> \o operator \o <<" ">>))

Replacement(bg, pat, groups) ==
    IF pat.n = 3 THEN _replace_rgb(bg, groups, pat.op)
    ELSE IF pat.n = 1 THEN _replace_gray(bg, groups, pat.op)
    ELSE _replace_cmyk(bg, groups, pat.op)

\* the positions from i on where the pattern matches
MatchStarts(s, i, pat) == {j \in i..Len(s) : MatchAt(s, j, pat).ok}

\* the least element of a non-empty set of positions
Least(S) == CHOOSE j \in S : \A k \in S : j <= k

\* re.sub(pattern, replacement, s) from position i on: leftmost matches, not
\* overlapping, everything else copied
RECURSIVE ReSub(_, _, _, _)
ReSub(bg, s, i, pat) ==
    Bind(MatchStarts(s, i, pat), LAMBDA starts :
        IF starts = {} THEN Slice(s, i, Len(s) + 1)
        ELSE Bind(MatchAt(s, Least(starts), pat), LAMBDA m :
                Slice(s, i, Least(starts)) \o Replacement(bg, pat, m.groups)
                \o ReSub(bg, s, m.pos, pat)))

\* the content after the first n substitutions
RECURSIVE AfterPass(_, _, _)
AfterPass(bg, content, n) ==
    IF n = 0 THEN content
    ELSE Bind(AfterPass(bg, content, n - 1), LAMBDA prev : ReSub(bg, prev, 1, Patterns[n]))

_transform_content_stream(bg, content) == AfterPass(bg, content, 6)

(***************************************************************************)
(* Direct calls of the mapper: the inputs and the three actions.           *)
(***************************************************************************)
\* component values k / GridN, 0.93 (the near-white threshold itself), and
\* 0.08 and 0.07, which with 0.1 give dark colours of saturation 0.2 and 0.3
Levels == {Q(k, GridN) : k \in 0..GridN} \cup {Dec(93, 100), Dec(8, 100), Dec(7, 100)}

CmykLevels == {Q(k, CmykN) : k \in 0..CmykN}

GrayLevels == {Q(k, 4 * GridN) : k \in 0..(4 * GridN)} \cup {Dec(93, 100)}

\* the dark blue 0 0 0.5019 rg
DarkBlue == <<Zero, Zero, Dec(5019, 10000)>>

ColourCalls(bg) ==
    {[fn |-> "_transform_rgb", args |-> <<r, g, b>>] : r \in Levels, g \in Levels, b \in Levels}
    \cup {[fn |-> "_transform_rgb", args |-> BgRGB(bg)]}
    \cup {[fn |-> "_transform_rgb", args |-> DarkBlue]}
    \cup {[fn |-> "_transform_cmyk", args |-> <<c, m, y, k>>] :
            c \in CmykLevels, m \in CmykLevels, y \in CmykLevels, k \in CmykLevels}
    \cup {[fn |-> "_transform_grayscale", args |-> <<x>>] : x \in GrayLevels}

NoDocument ==
    /\ input_doc = Nothing
    /\ pdf = <<>>
    /\ page_no = 0
    /\ result = Nothing
    /\ exit_code = <<>>
    /\ out_file = Nothing

InitColour ==
    /\ theme \in ThemeArgs
    /\ bg_color = ThemesGet(theme)
    /\ pc = "ready"
    /\ NoDocument
    /\ call \in ColourCalls(bg_color)
    /\ ret = None

TransformRgb ==
    /\ pc = "ready"
    /\ call.fn = "_transform_rgb"
    /\ ret' = _transform_rgb(bg_color, call.args[1], call.args[2], call.args[3])
    /\ pc' = "returned"
    /\ UNCHANGED <<theme, bg_color, docVars, call>>

TransformGrayscale ==
    /\ pc = "ready"
    /\ call.fn = "_transform_grayscale"
    /\ ret' = _transform_grayscale(bg_color, call.args[1])
    /\ pc' = "returned"
    /\ UNCHANGED <<theme, bg_color, docVars, call>>

TransformCmyk ==
    /\ pc = "ready"
    /\ call.fn = "_transform_cmyk"
    /\ ret' = _transform_cmyk(bg_color, call.args[1], call.args[2], call.args[3], call.args[4])
    /\ pc' = "returned"
    /\ UNCHANGED <<theme, bg_color, docVars, call>>

NextColour == TransformRgb \/ TransformGrayscale \/ TransformCmyk

SpecColour == InitColour /\ [][NextColour]_vars

(***************************************************************************)
(* Direct calls of the rewriter: content streams and matched operands.     *)
(***************************************************************************)
\* pieces of content streams; a stream of the model is up to MaxFrags of them,
\* one per line
Fragments ==
    <<
    <<"1", " ", "1", " ", "1", " ", "r", "g">>,
    <<"0", " ", "0", " ", "0", " ", "r", "g", " ", "(", "B", "o", "d", "y", ")", " ", "T", "j">>,
    <<"1", ".", "5", " ", "0", " ", "0", " ", "r", "g">>,
    <<".", "5", " ", "g">>,
    <<"-", "0", ".", "5", " ", "g">>,
    <<"0", ".", "9", " ", "g">>,
    <<"0", " ", "0", " ", "0", " ", "0", " ", "k">>,
    <<"(", "1", " ", "g", ")", " ", "T", "j">>,
    <<"%", " ", "0", " ", "g">>,
    <<"0", ".", "5", " ", " ", "G">>,
    <<"0", " ", "0", " ", "1", " ", "R", "G">>,
    <<"0", " ", "1", " ", "1", " ", "0", " ", "K">>,
    <<"0", " ", "0", " ", "1", "0", "0", " ", "1", "0", "0", " ", "r", "e", " ", "f">>,
    <<"/", "C", "s", "1", " ", "c", "s", " ", "0", ".", "5", " ", "s", "c">>,
    <<"B", "I", " ", "/", "W", " ", "1", " ", "I", "D", " ", "1", " ", "g", " ", "E", "I">>,
    <<"0", ".", "2", " ", "0", ".", "4", " ", "0", ".", "1", " ", "r", "g">>,
    <<"/", "D", "e", "v", "i", "c", "e", "G", "r", "a", "y", " ", "c", "s", " ", "0", " ", "s", "c">>,
    <<"1", ".", " ", "0", " ", "0", " ", "r", "g">>
    >>

RECURSIVE Streams(_)
Streams(n) ==
    IF n = 1 THEN {Fragments[i] : i \in DOMAIN Fragments}
    ELSE Streams(n - 1)
         \cup {s \o <<"\n">> \o Fragments[i] : s \in Streams(n - 1), i \in DOMAIN Fragments}

\* operand texts (\d*\.?\d+) can capture
LeadingDotLexemes == {<<"0">>, <<"1">>, <<"0", ".", "5">>, <<".", "5">>, <<"1", ".", "5">>, <<"5">>}

\* operand texts (\d+\.?\d*) can capture
LeadingDigitLexemes == {<<"0">>, <<"1">>, <<"0", ".", "5">>, <<"1", ".", "5">>, <<"5", ".">>}

RewriterCalls ==
    {[fn |-> "_transform_content_stream", args |-> <<c>>] : c \in Streams(MaxFrags)}
    \cup {[fn |-> "_replace_rgb", args |-> <<<<a, b, c>>, op>>] :
            a \in LeadingDotLexemes, b \in LeadingDotLexemes, c \in LeadingDotLexemes,
            op \in {<<"r", "g">>, <<"R", "G">>}}
    \cup {[fn |-> "_replace_gray", args |-> <<<<a>>, op>>] :
            a \in LeadingDigitLexemes, op \in {<<"g">>, <<"G">>}}
    \cup {[fn |-> "_replace_cmyk", args |-> <<<<a, b, c, d>>, op>>] :
            a \in LeadingDigitLexemes, b \in LeadingDigitLexemes,
            c \in LeadingDigitLexemes, d \in {<<"0">>, <<"0", ".", "5">>, <<"1", ".", "5">>},
            op \in {<<"k">>, <<"K">>}}

InitStream ==
    /\ theme \in ThemeArgs
    /\ bg_color = ThemesGet(theme)
    /\ pc = "ready"
    /\ NoDocument
    /\ call \in RewriterCalls
    /\ ret = None

TransformContentStream ==
    /\ pc = "ready"
    /\ call.fn = "_transform_content_stream"
    /\ ret' = _transform_content_stream(bg_color, call.args[1])
    /\ pc' = "returned"
    /\ UNCHANGED <<theme, bg_color, docVars, call>>

ReplaceRgb ==
    /\ pc = "ready"
    /\ call.fn = "_replace_rgb"
    /\ ret' = _replace_rgb(bg_color, call.args[1], call.args[2])
    /\ pc' = "returned"
    /\ UNCHANGED <<theme, bg_color, docVars, call>>

ReplaceGray ==
    /\ pc = "ready"
    /\ call.fn = "_replace_gray"
    /\ ret' = _replace_gray(bg_color, call.args[1], call.args[2])
    /\ pc' = "returned"
    /\ UNCHANGED <<theme, bg_color, docVars, call>>

ReplaceCmyk ==
    /\ pc = "ready"
    /\ call.fn = "_replace_cmyk"
    /\ ret' = _replace_cmyk(bg_color, call.args[1], call.args[2])
    /\ pc' = "returned"
    /\ UNCHANGED <<theme, bg_color, docVars, call>>

NextStream == TransformContentStream \/ ReplaceRgb \/ ReplaceGray \/ ReplaceCmyk

SpecStream == InitStream /\ [][NextStream]_vars

(***************************************************************************)
(* Documents: pages, the underlay and _process_page.                       *)
(***************************************************************************)
\* a content stream object: its bytes, and whether read_bytes() can decode it
Stream(data) == [data |-> data, readable |-> TRUE]

Unreadable(data) == [data |-> data, readable |-> FALSE]

NoContents == [kind |-> "absent", items |-> <<>>]

SingleStream(st) == [kind |-> "stream", items |-> <<st>>]

StreamArray(sts) == [kind |-> "array", items |-> sts]

LetterBox == <<0, 0, 612, 792>>

\* a media box whose origin is not (0, 0)
ShiftedBox == <<10, 20, 310, 420>>

\* the pages a document of the model is made of; an Inherited MediaBox is one the
\* page inherits from its parent, so that page.MediaBox raises
PageSamples ==
    {[MediaBox |-> LetterBox, underlay |-> NoUnderlay,
      Contents |-> SingleStream(Stream(Fragments[1] \o <<"\n">> \o Fragments[2]))],
     [MediaBox |-> ShiftedBox, underlay |-> NoUnderlay,
      Contents |-> StreamArray(<<Stream(Fragments[6]), Stream(Fragments[13])>>)],
     [MediaBox |-> ShiftedBox, underlay |-> NoUnderlay,
      Contents |-> StreamArray(<<Stream(<<"0", ".", "5">>), Stream(<<"g">>)>>)],
     [MediaBox |-> LetterBox, underlay |-> NoUnderlay, Contents |-> NoContents],
     [MediaBox |-> Inherited, underlay |-> NoUnderlay,
      Contents |-> SingleStream(Stream(Fragments[1]))],
     [MediaBox |-> ShiftedBox, underlay |-> NoUnderlay,
      Contents |-> SingleStream(Unreadable(Fragments[1]))]}

\* the parsed documents: up to MaxPages pages, each with its object number
Documents ==
    UNION {{Doc([i \in 1..n |-> [obj |-> i, MediaBox |-> f[i].MediaBox,
                             underlay |-> f[i].underlay, Contents |-> f[i].Contents]]) :
             f \in [1..n -> PageSamples]} : n \in 0..MaxPages}

\* what cli.main may find at input_path
Inputs == Documents \cup {Failure("unreadable"), Failure("corrupt")}

\* _create_background_pdf: one page of the given size, filled with the theme colour
_create_background_pdf(bg, width, height) ==
    [MediaBox |-> <<0, 0, width, height>>, fill |-> BgRGB(bg),
     rect |-> <<0, 0, width, height>>]

\* the content pikepdf writes to draw the underlay's form XObject
PlacementCommand ==
    <<"q", "\n", "1", " ", "0", " ", "0", " ", "1", " ", "0", " ", "0", " ", "c", "m", "\n", "/", "F", "m", "0", " ", "D", "o", "\n", "Q", "\n">>

\* an underlay that also resets the page's MediaBox to the rectangle it was given
add_underlay_resetting_box(page, bg_page, rect) ==
    [page EXCEPT !.MediaBox = rect,
                 !.underlay = [fill |-> bg_page.fill, rect |-> rect],
                 !.Contents = StreamArray(<<Stream(PlacementCommand), Stream(<<"q", "\n">>)>>
                                          \o page.Contents.items
                                          \o <<Stream(<<"Q", "\n">>)>>)]

\* an overlay: the command that draws the form goes last
add_overlay(page, bg_page, rect) ==
    [page EXCEPT !.underlay = [fill |-> bg_page.fill, rect |-> rect],
                 !.Contents = StreamArray(<<Stream(<<"q", "\n">>)>>
                                          \o page.Contents.items
                                          \o <<Stream(<<"Q", "\n">>), Stream(PlacementCommand)>>)]

\* an underlay that gives a page without Contents the form but no Contents
add_underlay_without_contents(page, bg_page, rect) ==
    IF page.Contents.kind = "absent"
    THEN [page EXCEPT !.underlay = [fill |-> bg_page.fill, rect |-> rect]]
    ELSE [page EXCEPT !.underlay = [fill |-> bg_page.fill, rect |-> rect],
                      !.Contents = StreamArray(<<Stream(PlacementCommand), Stream(<<"q", "\n">>)>>
                                               \o page.Contents.items
                                               \o <<Stream(<<"Q", "\n">>)>>)]

\* page.add_underlay(bg_page, bg_rect): the form is placed in rect, its command
\* goes first, and the page's own streams are wrapped in q ... Q
add_underlay(page, bg_page, rect) ==
    [page EXCEPT !.underlay = [fill |-> bg_page.fill, rect |-> rect],
                 !.Contents = StreamArray(<<Stream(PlacementCommand), Stream(<<"q", "\n">>)>>
                                          \o page.Contents.items
                                          \o <<Stream(<<"Q", "\n">>)>>)]

\* the streams put end to end with nothing between them
RECURSIVE JoinBare(_)
JoinBare(items) ==
    IF items = <<>> THEN <<>> ELSE items[1].data \o JoinBare(Tail(items))

\* '\n'.join(all_content)
RECURSIVE JoinLines(_)
JoinLines(items) ==
    IF items = <<>> THEN <<>>
    ELSE IF Len(items) = 1 THEN items[1].data
    ELSE items[1].data \o <<"\n">> \o JoinLines(Tail(items))

\* the page after the underlay: its streams are read, joined, rewritten and
\* replaced by one new stream; a stream that cannot be read raises, and the
\* page stays as the underlay left it
RewriteContents(bg, page) ==
    IF page.Contents.kind = "absent" THEN page
    ELSE IF \E i \in DOMAIN page.Contents.items : ~page.Contents.items[i].readable THEN page
    ELSE [page EXCEPT !.Contents =
            SingleStream(Stream(_transform_content_stream(bg, JoinLines(page.Contents.items))))]

\* _process_page, its try/except included
_process_page(bg, page) ==
    IF page.MediaBox = Inherited THEN page
    ELSE LET width  == page.MediaBox[3] - page.MediaBox[1]
             height == page.MediaBox[4] - page.MediaBox[2]
         IN  Bind(add_underlay(page, _create_background_pdf(bg, width, height),
                               <<0, 0, width, height>>),
                  LAMBDA under : RewriteContents(bg, under))

(***************************************************************************)
(* cli.main: read, construct, process_pdf, write.                          *)
(***************************************************************************)
Init ==
    /\ theme \in ThemeArgs
    /\ bg_color = None
    /\ pc = "start"
    /\ input_doc \in Inputs
    /\ pdf = <<>>
    /\ page_no = 0
    /\ result = Nothing
    /\ exit_code = <<>>
    /\ out_file = Nothing
    /\ call = None
    /\ ret = None

\* open(input_path, 'rb').read()
ReadInput ==
    /\ pc = "start"
    /\ IF input_doc.status = "unreadable"
       THEN pc' = "exited" /\ exit_code' = <<1>>
       ELSE pc' = "read" /\ UNCHANGED exit_code
    /\ UNCHANGED <<theme, bg_color, input_doc, pdf, page_no, result, out_file, call, ret>>

\* PDFVectorProcessorPikePDF(theme=theme)
Construct ==
    /\ pc = "read"
    /\ bg_color' = ThemesGet(theme)
    /\ pc' = "constructed"
    /\ UNCHANGED <<theme, docVars, call, ret>>

\* process_pdf: Pdf.open(io.BytesIO(input_bytes))
Open ==
    /\ pc = "constructed"
    /\ IF input_doc.status = "corrupt"
       THEN pc' = "exited" /\ result' = Failure("ParseError") /\ exit_code' = <<1>> /\ UNCHANGED pdf
       ELSE pc' = "pages" /\ pdf' = input_doc.pages /\ UNCHANGED <<result, exit_code>>
    /\ UNCHANGED <<theme, bg_color, input_doc, page_no, out_file, call, ret>>

\* process_pdf: one turn of the loop over self.pdf.pages
ProcessPage ==
    /\ pc = "pages"
    /\ page_no < Len(pdf)
    /\ pdf' = [pdf EXCEPT ![page_no + 1] = _process_page(bg_color, pdf[page_no + 1])]
    /\ page_no' = page_no + 1
    /\ UNCHANGED <<theme, bg_color, pc, input_doc, result, exit_code, out_file, call, ret>>

\* a save whose failure is swallowed: process_pdf returns without bytes
SaveSwallowing ==
    /\ pc = "pages"
    /\ page_no = Len(pdf)
    /\ \/ pc' = "saved" /\ result' = Doc(pdf) /\ UNCHANGED exit_code
       \/ pc' = "saved" /\ result' = Failure("SerializeError") /\ UNCHANGED exit_code
    /\ UNCHANGED <<theme, bg_color, input_doc, pdf, page_no, out_file, call, ret>>

\* process_pdf: self.pdf.save(output), and the return of the bytes
Save ==
    /\ pc = "pages"
    /\ page_no = Len(pdf)
    /\ \/ pc' = "saved" /\ result' = Doc(pdf) /\ UNCHANGED exit_code
       \/ pc' = "exited" /\ result' = Failure("SerializeError") /\ exit_code' = <<1>>
    /\ UNCHANGED <<theme, bg_color, input_doc, pdf, page_no, out_file, call, ret>>

\* open(output_path, 'wb').write(output_bytes)
WriteOutput ==
    /\ pc = "saved"
    /\ \/ out_file' = result /\ exit_code' = <<0>>
       \/ exit_code' = <<1>> /\ UNCHANGED out_file
    /\ pc' = "exited"
    /\ UNCHANGED <<theme, bg_color, input_doc, pdf, page_no, result, call, ret>>

Next == ReadInput \/ Construct \/ Open \/ ProcessPage \/ Save \/ WriteOutput

Spec == Init /\ [][Next]_vars

(***************************************************************************)
(* main.convert_pdf: the /convert endpoint.                                *)
(***************************************************************************)
\* process_pdf as one call: the document with every page processed, or the
\* failure of Pdf.open or of save
process_pdf(bg, doc, saves) ==
    IF doc.status = "corrupt" THEN Failure("ParseError")
    ELSE IF ~saves THEN Failure("SerializeError")
    ELSE Doc([i \in 1..Len(doc.pages) |-> _process_page(bg, doc.pages[i])])

\* str.lower() on the letters file names of the model are written with
Lower(c) ==
    CASE c = "A" -> "a"
      [] c = "P" -> "p"
      [] c = "D" -> "d"
      [] c = "F" -> "f"
      [] OTHER   -> c

\* file.filename.lower().endswith('.pdf')
IsPdfName(name) ==
    /\ Len(name) >= 4
    /\ [i \in 1..4 |-> Lower(name[Len(name) - 4 + i])] = <<".", "p", "d", "f">>

FileNames ==
    {<<"a", ".", "p", "d", "f">>, <<"A", ".", "P", "D", "F">>,
     <<"a", ".", "t", "x", "t">>, <<"p", "d", "f">>}

valid_themes == {"classic", "claude", "chatgpt", "sepia", "midnight", "forest"}

\* a theme test that also accepts an id written with a capital
ThemeIsValidIgnoreCase(t) == t \in valid_themes \cup {"Classic", "Claude"}

\* theme in valid_themes
ThemeIsValid(t) == t \in valid_themes

HTTPException(code) == [status_code |-> code, media_type |-> "application/json", content |-> Nothing]

Response(content) == [status_code |-> 200, media_type |-> "application/pdf", content |-> content]

InitApi ==
    /\ theme \in ThemeArgs
    /\ bg_color = None
    /\ pc = "request"
    /\ input_doc \in Inputs
    /\ pdf = <<>>
    /\ page_no = 0
    /\ result = Nothing
    /\ exit_code = <<>>
    /\ out_file = Nothing
    /\ call \in {[fn |-> "convert_pdf", args |-> <<name>>] : name \in FileNames}
    /\ ret = None

\* the two validations that answer 400
ConvertReject ==
    /\ pc = "request"
    /\ ~IsPdfName(call.args[1]) \/ ~ThemeIsValid(theme)
    /\ ret' = HTTPException(400)
    /\ pc' = "responded"
    /\ UNCHANGED <<theme, bg_color, docVars, call>>

\* both validations passed: the try block is entered
ConvertAccept ==
    /\ pc = "request"
    /\ IsPdfName(call.args[1])
    /\ ThemeIsValid(theme)
    /\ pc' = "try"
    /\ UNCHANGED <<theme, bg_color, docVars, call, ret>>

\* await file.read()
ConvertRead ==
    /\ pc = "try"
    /\ IF input_doc.status = "unreadable"
       THEN pc' = "responded" /\ ret' = HTTPException(500)
       ELSE pc' = "uploaded" /\ UNCHANGED ret
    /\ UNCHANGED <<theme, bg_color, docVars, call>>

\* the processor is constructed and run, and its bytes or its exception
\* become the response
ConvertProcess ==
    /\ pc = "uploaded"
    /\ bg_color' = ThemesGet(theme)
    /\ \E saves \in BOOLEAN :
          /\ result' = process_pdf(ThemesGet(theme), input_doc, saves)
          /\ ret' = IF result'.status = "ok" THEN Response(result') ELSE HTTPException(500)
    /\ pc' = "responded"
    /\ UNCHANGED <<theme, input_doc, pdf, page_no, exit_code, out_file, call>>

NextApi == ConvertReject \/ ConvertAccept \/ ConvertRead \/ ConvertProcess

SpecApi == InitApi /\ [][NextApi]_vars

(***************************************************************************)
(* Properties of the endpoint (checked under SpecApi).                     *)
(***************************************************************************)
Responded == pc = "responded"

Returned == pc \in {"saved", "exited"} /\ result.status = "ok"

\* C1: process_pdf returns the pages of the input, as many and in the same
\* order, each with the MediaBox it had, whether or not its rewrite succeeded.
C1_PagesAndBoxesPreserved ==
    Returned =>
        /\ Len(result.pages) = Len(input_doc.pages)
        /\ \A i \in 1..Len(result.pages) :
              /\ result.pages[i].obj = input_doc.pages[i].obj
              /\ result.pages[i].MediaBox = input_doc.pages[i].MediaBox

C1_Witness ==
    /\ Returned
    /\ Len(result.pages) = 2
    /\ result.pages[1].MediaBox = ShiftedBox
    /\ result.pages[1].underlay # NoUnderlay
    /\ result.pages[1].Contents.kind = "stream"
    /\ result.pages[2].Contents = input_doc.pages[2].Contents
    /\ result.pages[2].MediaBox = Inherited

\* the background the claim names for a theme id
ExpectedBackground(t) ==
    CASE t = "classic"  -> [r |-> 0,  g |-> 0,  b |-> 0]
      [] t = "claude"   -> [r |-> 42, g |-> 37, b |-> 34]
      [] t = "chatgpt"  -> [r |-> 52, g |-> 53, b |-> 65]
      [] t = "sepia"    -> [r |-> 40, g |-> 35, b |-> 25]
      [] t = "midnight" -> [r |-> 25, g |-> 30, b |-> 45]
      [] t = "forest"   -> [r |-> 25, g |-> 35, b |-> 30]
      [] OTHER          -> [r |-> 0,  g |-> 0,  b |-> 0]

\* C2: once constructed, the processor holds the background of its theme id,
\* and the classic background (0,0,0) for an id that is not one of the six
\* (the comparison is case-sensitive); construction never ends the run.
C2_ThemeFallback ==
    /\ (pc \notin {"start", "read"} /\ input_doc.status # "unreadable")
          => bg_color = ExpectedBackground(theme)
    /\ (pc = "constructed" => exit_code = <<>>)

C2_Witness ==
    /\ pc = "constructed"
    /\ theme = "Claude"
    /\ bg_color = [r |-> 0, g |-> 0, b |-> 0]

\* _process_page raises on this page: its MediaBox is not its own, or one of
\* its streams cannot be read
PageRaises(page) ==
    \/ page.MediaBox = Inherited
    \/ \E i \in DOMAIN page.Contents.items : ~page.Contents.items[i].readable

\* the streams of the first sequence occur, in order and next to each other,
\* in the second
Contains(items, all) ==
    \E k \in 0..(Len(all) - Len(items)) : SubSeq(all, k + 1, k + Len(items)) = items

\* C12: a page on which _process_page raises is emitted with its original
\* content streams and the background, every other page is rewritten, and the
\* run is not ended by the page.
C12_PageFailureIsolated ==
    Returned =>
        \A i \in 1..Len(result.pages) :
            IF PageRaises(input_doc.pages[i])
            THEN /\ result.pages[i].underlay.fill = BgRGB(bg_color)
                 /\ Contains(input_doc.pages[i].Contents.items, result.pages[i].Contents.items)
            ELSE /\ result.pages[i].underlay.fill = BgRGB(bg_color)
                 /\ result.pages[i].Contents.kind = "stream"

\* C14: a parse failure of the input or a serialisation failure of the output
\* propagates out of process_pdf: the run ends with a non-zero exit code and
\* no output file; the exit code is 0 only when the input was read, process_pdf
\* returned a document and that document was written.
C14_FailuresPropagate ==
    /\ result.status \in {"ParseError", "SerializeError"} =>
          pc = "exited" /\ exit_code = <<1>> /\ out_file = Nothing
    /\ exit_code = <<0>> =>
          input_doc.status = "ok" /\ result.status = "ok" /\ out_file = result

C14_Witness ==
    /\ result.status = "SerializeError"
    /\ Len(pdf) = 2
    /\ exit_code = <<1>>
    /\ out_file = Nothing

(***************************************************************************)
(* Properties of the stream rewriter (checked under SpecStream).           *)
(***************************************************************************)
ReplaceReturned ==
    pc = "returned" /\ call.fn \in {"_replace_rgb", "_replace_gray", "_replace_cmyk"}

\* an operand text with its value clamped to [0, 1]; a captured operand has
\* no sign, so only the upper end can be exceeded
ClampLexeme(g) == IF QLt(One, ParseFloat(g)) THEN <<"1">> ELSE g

ClampedGroups == [i \in DOMAIN call.args[1] |-> ClampLexeme(call.args[1][i])]

\* C8: a colour operator whose operands lie outside [0, 1] is rewritten to
\* the operator that mapping the clamped operands gives.
C8_OperandsClamped ==
    ReplaceReturned =>
        ret = Replacement(bg_color, [n |-> Len(call.args[1]), op |-> call.args[2]],
                          ClampedGroups)

StreamReturned == pc = "returned" /\ call.fn = "_transform_content_stream"

\* the stream without the characters numbers are written with
Skeleton(s) == SelectSeq(s, LAMBDA c : c \notin Digits \cup {"."})

\* position i lies inside a literal string ( ... )
InString(s, i) ==
    Cardinality({j \in 1..(i - 1) : s[j] = "("}) > Cardinality({j \in 1..i : s[j] = ")"})

\* position i lies inside a comment % ... end of line
InComment(s, i) ==
    \E j \in 1..(i - 1) :
        /\ s[j] = "%"
        /\ ~InString(s, j)
        /\ \A k \in j..i : s[k] # "\n"

\* the characters of the literal strings and comments of the stream, in order
Protected(s) ==
    LET idx == SelectSeq([i \in 1..Len(s) |-> i],
                         LAMBDA i : InString(s, i) \/ InComment(s, i))
    IN  [k \in 1..Len(idx) |-> s[idx[k]]]

\* C9: rewriting changes only the numeric operands of colour operators: what
\* is left of the stream when the number characters are taken out is the
\* same before and after (no whitespace is added or removed), and the
\* characters of literal strings and comments are the same before and after.
C9_OnlyOperandsChange ==
    StreamReturned =>
        /\ Skeleton(ret) = Skeleton(call.args[1])
        /\ Protected(ret) = Protected(call.args[1])

\* the tokens of the stream: the maximal runs without whitespace, in order
Tokens(s) ==
    LET starts == SelectSeq([i \in 1..Len(s) |-> i],
                            LAMBDA i : s[i] \notin Whitespace
                                       /\ (i = 1 \/ s[i - 1] \in Whitespace))
        End(i) == IF \E j \in i..Len(s) : s[j] \in Whitespace
                  THEN Least({j \in i..Len(s) : s[j] \in Whitespace})
                  ELSE Len(s) + 1
    IN  [k \in 1..Len(starts) |-> Slice(s, starts[k], End(starts[k]))]

\* written with the characters of numbers only
NumberLike(t) == t # <<>> /\ \A i \in 1..Len(t) : t[i] \in Digits \cup {".", "+", "-"}

\* a PDF number: optional sign, digits, at most one decimal point, at most
\* six digits after it
IsPdfNumber(t) ==
    LET body == IF t # <<>> /\ t[1] \in {"+", "-"} THEN Tail(t) ELSE t
        dots == {i \in 1..Len(body) : body[i] = "."}
    IN  /\ \A i \in 1..Len(body) : body[i] \in Digits \cup {"."}
        /\ \E i \in 1..Len(body) : body[i] \in Digits
        /\ Cardinality(dots) <= 1
        /\ \A d \in dots : Len(body) - d <= 6

\* the number of operands of a colour operator, 0 for any other token
Arity(t) ==
    IF t \in {<<"g">>, <<"G">>} THEN 1
    ELSE IF t \in {<<"r", "g">>, <<"R", "G">>} THEN 3
    ELSE IF t \in {<<"k">>, <<"K">>} THEN 4
    ELSE 0

\* token k is an operand of a colour operator: number-like tokens lead from
\* it to the operator, no more of them than the operator takes
IsOperand(toks, k) ==
    /\ NumberLike(toks[k])
    /\ \E d \in 1..4 :
          /\ k + d <= Len(toks)
          /\ Arity(toks[k + d]) >= d
          /\ \A e \in 1..(d - 1) : NumberLike(toks[k + e])

\* C10: after rewriting, every numeric operand of a colour operator is a
\* syntactically valid PDF number, whatever the lexical form of the original
\* operand (leading dot, leading sign).
C10_OperandsAreNumbers ==
    StreamReturned =>
        LET toks == Tokens(ret)
        IN  \A k \in 1..Len(toks) : IsOperand(toks, k) => IsPdfNumber(toks[k])

\* the colour operators among the tokens, in order
OperatorTokens(toks) == SelectSeq(toks, LAMBDA t : Arity(t) > 0)

\* token k is a colour operator with exactly its number of numeric operands
\* in front of it
HasItsOperands(toks, k) ==
    /\ k > Arity(toks[k])
    /\ \A d \in 1..Arity(toks[k]) : IsPdfNumber(toks[k - d])
    /\ (k - Arity(toks[k]) - 1 >= 1 => ~NumberLike(toks[k - Arity(toks[k]) - 1]))

\* the stream with its literal strings and comments blanked out
Code(s) ==
    [i \in 1..Len(s) |->
        IF InString(s, i) \/ InComment(s, i) \/ s[i] \in {"(", ")", "%"} THEN " " ELSE s[i]]

\* every colour operator among the tokens has exactly its numeric operands
WellFormed(toks) ==
    \A k \in 1..Len(toks) : Arity(toks[k]) > 0 => HasItsOperands(toks, k)

\* C11: rewriting conserves operator arity and identity: the colour operators
\* of the output (outside strings and comments) are those of the input, in
\* order and in the same case, and each has exactly its 1, 3 or 4 numeric
\* operands in front of it.
C11_ArityConserved ==
    StreamReturned =>
        /\ OperatorTokens(Tokens(Code(ret))) = OperatorTokens(Tokens(Code(call.args[1])))
        /\ WellFormed(Tokens(Code(ret)))

\* the positions of the sc and SC operators among the tokens
ScAt(toks) ==
    SelectSeq([i \in 1..Len(toks) |-> i], LAMBDA i : toks[i] \in {<<"s", "c">>, <<"S", "C">>})

DeviceGray == <<"/", "D", "e", "v", "i", "c", "e", "G", "r", "a", "y">>

\* the colour space an sc (SC) at token i works in: the name in front of the
\* most recent cs (CS), DeviceGray when there is none
ActiveSpace(toks, i) ==
    LET sel == IF toks[i] = <<"s", "c">> THEN <<"c", "s">> ELSE <<"C", "S">>
        set == {j \in 2..(i - 1) : toks[j] = sel}
    IN  IF set = {} THEN DeviceGray
        ELSE toks[(CHOOSE j \in set : \A k \in set : k <= j) - 1]

\* the operand an sc in DeviceGray is to carry after rewriting: that of g
MappedGray(bg, t) == Format4(_transform_grayscale(bg, ParseFloat(t)))

\* C17: an sc / SC whose active colour space is a device space is rewritten
\* like g, rg or k (here DeviceGray: one operand, mapped like g), and in any
\* other space the operator and its operands pass through unchanged.
C17_ScFollowsColourSpace ==
    StreamReturned =>
        LET in  == Tokens(Code(call.args[1]))
            out == Tokens(Code(ret))
        IN  /\ Len(ScAt(out)) = Len(ScAt(in))
            /\ \A n \in 1..Len(ScAt(in)) :
                  LET i == ScAt(in)[n]
                      o == ScAt(out)[n]
                  IN  /\ out[o] = in[i]
                      /\ IF ActiveSpace(in, i) = DeviceGray
                         THEN out[o - 1] = MappedGray(bg_color, in[i - 1])
                         ELSE out[o - 1] = in[i - 1]

\* a token of the two given letters starts at position j
TokenAt(s, j, a, b) ==
    /\ j + 1 <= Len(s)
    /\ s[j] = a
    /\ s[j + 1] = b
    /\ (j = 1 \/ s[j - 1] \in Whitespace)
    /\ (j + 1 = Len(s) \/ s[j + 2] \in Whitespace)

\* position i lies in an inline image: from a BI on, up to the end of the
\* first EI after it
InImage(s, i) ==
    \E j \in 1..i :
        /\ TokenAt(s, j, "B", "I")
        /\ \A e \in (j + 2)..(i - 2) : ~TokenAt(s, e, "E", "I")

\* the bytes of the inline images of the stream, in order
ImageBytes(s) ==
    LET idx == SelectSeq([i \in 1..Len(s) |-> i], LAMBDA i : InImage(s, i))
    IN  [k \in 1..Len(idx) |-> s[idx[k]]]

\* C18: the bytes of an inline image, from BI through the payload after ID to
\* EI, are the same in the rewritten stream, also when the payload spells a
\* number followed by a colour operator.
C18_InlineImageOpaque ==
    StreamReturned => ImageBytes(ret) = ImageBytes(call.args[1])

\* C19: under theme claude the operator 0.9 g is rewritten to the luminance
\* of the claude background (42, 37, 34) / 255.
C19_LightGrayToBackground ==
    (StreamReturned /\ theme = "claude" /\ call.args[1] = <<"0", ".", "9", " ", "g">>) =>
        /\ Tokens(ret)[1] = Format4(Luminance(Q(42, 255), Q(37, 255), Q(34, 255)))
        /\ Tokens(ret)[2] = <<"g">>

\* the number of replacements re.sub makes in s from position i on
RECURSIVE CountSub(_, _, _)
CountSub(s, i, pat) ==
    Bind(MatchStarts(s, i, pat), LAMBDA starts :
        IF starts = {} THEN 0
        ELSE 1 + CountSub(s, MatchAt(s, Least(starts), pat).pos, pat))

\* the replacements pass n makes on the text the passes before it left
PassCount(bg, content, n) == CountSub(AfterPass(bg, content, n - 1), 1, Patterns[n])

\* a stream without literal strings, comments and inline images
Plain(s) == Code(s) = s /\ ImageBytes(s) = <<>>

\* C22 (first half): in a well-formed stream the operands of every colour
\* operator are mapped by exactly one of the six passes: the passes together
\* make as many replacements as the stream has colour operators.
C22_MappedExactlyOnce ==
    (StreamReturned /\ Plain(call.args[1])) =>
        PassCount(bg_color, call.args[1], 1) + PassCount(bg_color, call.args[1], 2)
        + PassCount(bg_color, call.args[1], 3) + PassCount(bg_color, call.args[1], 4)
        + PassCount(bg_color, call.args[1], 5) + PassCount(bg_color, call.args[1], 6)
            = Len(OperatorTokens(Tokens(call.args[1])))

\* C22 (second half): text produced by an earlier pass is never matched by a
\* later pass: every pass makes on the text it is given the replacements it
\* would make on the original stream.
C22_NoPassRematches ==
    StreamReturned =>
        \A n \in 1..6 :
            PassCount(bg_color, call.args[1], n) = CountSub(call.args[1], 1, Patterns[n])

(***************************************************************************)
(* Properties of the page contents (checked under Spec).                   *)
(***************************************************************************)
\* the tokens that are not numbers
Words(toks) == SelectSeq(toks, LAMBDA t : ~NumberLike(t))

\* C15: on every page that got the background, the command that draws it
\* comes first, in a q ... Q pair of its own that closes right after the Do,
\* and everything the page had before follows it, also once the streams are
\* merged into one rewritten stream.
C15_BackgroundFirst ==
    Returned =>
        \A i \in 1..Len(result.pages) :
            result.pages[i].underlay # NoUnderlay =>
                LET toks == Tokens(JoinLines(result.pages[i].Contents.items))
                    n    == Len(Tokens(PlacementCommand))
                IN  /\ Len(toks) >= n + 2
                    /\ SubSeq(toks, 1, n) = Tokens(PlacementCommand)
                    /\ toks[1] = <<"q">>
                    /\ toks[n - 1] = <<"D", "o">>
                    /\ toks[n] = <<"Q">>
                    /\ \A k \in 2..(n - 1) : toks[k] \notin {<<"q">>, <<"Q">>}
                    /\ toks[n + 1] = <<"q">>
                    /\ toks[Len(toks)] = <<"Q">>
                    /\ Words(SubSeq(toks, n + 2, Len(toks) - 1))
                          = Words(Tokens(JoinLines(input_doc.pages[i].Contents.items)))

C15_Witness ==
    /\ Returned
    /\ Len(result.pages) = 1
    /\ input_doc.pages[1].Contents.kind = "array"
    /\ result.pages[1].Contents.kind = "stream"
    /\ result.pages[1].underlay # NoUnderlay
    /\ Len(Tokens(result.pages[1].Contents.items[1].data)) > Len(Tokens(PlacementCommand)) + 2

\* C16: the rectangle the background is painted on has the origin, the width
\* and the height of the page's media box [x0 y0 x1 y1].
C16_BackgroundCoversMediaBox ==
    Returned =>
        \A i \in 1..Len(result.pages) :
            result.pages[i].underlay # NoUnderlay =>
                LET box  == result.pages[i].MediaBox
                    rect == result.pages[i].underlay.rect
                IN  /\ rect[1] = box[1]
                    /\ rect[2] = box[2]
                    /\ rect[3] - rect[1] = box[3] - box[1]
                    /\ rect[4] - rect[2] = box[4] - box[2]

\* the tokens of the streams of an array, stream after stream
RECURSIVE AllTokens(_)
AllTokens(items) ==
    IF items = <<>> THEN <<>> ELSE Tokens(items[1].data) \o AllTokens(Tail(items))

\* the tokens of the rewritten page that come from its own streams: those
\* between the q after the background command and the closing Q
Body(page) ==
    LET toks == Tokens(page.Contents.items[1].data)
    IN  SubSeq(toks, Len(Tokens(PlacementCommand)) + 2, Len(toks) - 1)

\* C23: a page whose Contents is an array of streams is rewritten as the
\* concatenation of its streams in array order: the tokens keep their number
\* and order in the one output stream, and a g whose operand ends one stream
\* while the operator starts the next is rewritten as one operator.
C23_ArrayIsConcatenation ==
    Returned =>
        \A i \in 1..Len(result.pages) :
            (input_doc.pages[i].Contents.kind = "array" /\ ~PageRaises(input_doc.pages[i])) =>
                LET in   == AllTokens(input_doc.pages[i].Contents.items)
                    body == Body(result.pages[i])
                IN  /\ result.pages[i].Contents.kind = "stream"
                    /\ Len(body) = Len(in)
                    /\ Words(body) = Words(in)
                    /\ \A k \in 2..Len(in) :
                          (in[k] = <<"g">> /\ NumberLike(in[k - 1])) =>
                              body[k - 1] = MappedGray(bg_color, in[k - 1])

C23_Witness ==
    /\ Returned
    /\ theme = "classic"
    /\ Len(result.pages) = 2
    /\ input_doc.pages[2].Contents = StreamArray(<<Stream(<<"0", ".", "5">>), Stream(<<"g">>)>>)
    /\ Body(result.pages[2]) = <<<<"0", ".", "7", "5", "0", "0">>, <<"g">>>>

\* page i had no Contents entry and a MediaBox of its own
NoContentsPage(i) ==
    /\ input_doc.pages[i].Contents.kind = "absent"
    /\ input_doc.pages[i].MediaBox # Inherited

RgbReturned == pc = "returned" /\ call.fn = "_transform_rgb"

ArgY == Luminance(call.args[1], call.args[2], call.args[3])

\* HSV saturation of the argument: (max - min) / max, 0 for black
ArgS ==
    LET mx == QMax3(call.args[1], call.args[2], call.args[3])
        mn == QMin3(call.args[1], call.args[2], call.args[3])
    IN  IF mx = Zero THEN Zero ELSE QDiv(QSub(mx, mn), mx)

White98 == <<Dec(98, 100), Dec(98, 100), Dec(98, 100)>>

\* C3: an RGB input with luminance Y > 0.93 is mapped to exactly the theme
\* background / 255, and an input with Y = 0.93 exactly is not collapsed.
C3_NearWhiteCollapse ==
    RgbReturned =>
        /\ (QLt(Dec(93, 100), ArgY) => ret = BgRGB(bg_color))
        /\ (ArgY = Dec(93, 100) => ret # BgRGB(bg_color))

C3_Witness ==
    /\ RgbReturned
    /\ theme = "claude"
    /\ QLt(Dec(93, 100), ArgY)
    /\ call.args # <<One, One, One>>
    /\ ret = <<Q(42, 255), Q(37, 255), Q(34, 255)>>

\* C4: an RGB input with Y < 0.15 and saturation S < 0.30 is mapped to
\* (0.98, 0.98, 0.98) under every theme.
C4_NearBlackExpansion ==
    (RgbReturned /\ QLt(ArgY, Dec(15, 100)) /\ QLt(ArgS, Dec(3, 10))) => ret = White98

C4_Witness ==
    /\ RgbReturned
    /\ QLt(ArgY, Dec(15, 100))
    /\ QLt(ArgS, Dec(3, 10))
    /\ QLt(Zero, ArgS)
    /\ theme = "midnight"
    /\ ret = White98

BgCall == RgbReturned /\ theme \in ThemeIds /\ call.args = BgRGB(themes[theme])

CmykReturned == pc = "returned" /\ call.fn = "_transform_cmyk"

ArgRgb == CmykToRgb(call.args[1], call.args[2], call.args[3], call.args[4])

\* C6: converting the CMYK mapper's output back to RGB gives the RGB mapper's
\* output on the RGB conversion of the input, (0,0,0,1) included.
C6_CmykRoundTrip ==
    CmykReturned =>
        CmykToRgb(ret[1], ret[2], ret[3], ret[4])
            = _transform_rgb(bg_color, ArgRgb[1], ArgRgb[2], ArgRgb[3])

C6_Witness ==
    /\ CmykReturned
    /\ _transform_rgb(bg_color, ArgRgb[1], ArgRgb[2], ArgRgb[3]) = <<Zero, Zero, Zero>>
    /\ ret = <<Zero, Zero, Zero, One>>

\* C7: every component of the RGB mapper's output lies in [0, 1].
C7_OutputInUnitRange ==
    RgbReturned => \A i \in 1..3 : QLe(Zero, ret[i]) /\ QLe(ret[i], One)

\* C20: in the near-black coloured band (Y < 0.15, S >= 0.30) the HSV value
\* of the output, its largest component, lies in [0.65, 0.85].
C20_NearBlackColouredValue ==
    (RgbReturned /\ QLt(ArgY, Dec(15, 100)) /\ QLe(Dec(3, 10), ArgS)) =>
        /\ QLe(Dec(65, 100), QMax3(ret[1], ret[2], ret[3]))
        /\ QLe(QMax3(ret[1], ret[2], ret[3]), Dec(85, 100))

\* the input is chromatic and falls in one of the bands that remap in HSV:
\* neither near-white nor near-black with low saturation
HsvBand ==
    /\ RgbReturned
    /\ QLt(Zero, ArgS)
    /\ QLe(ArgY, Dec(93, 100))
    /\ ~(QLt(ArgY, Dec(15, 100)) /\ QLt(ArgS, Dec(3, 10)))

\* C21: in every band that remaps in HSV, the hue of the returned colour
\* (by the same RGB-to-HSV conversion, after any clamping) is the hue of the
\* input.
C21_HuePreserved ==
    HsvBand =>
        _rgb_to_hsv(ret[1], ret[2], ret[3])[1]
            = _rgb_to_hsv(call.args[1], call.args[2], call.args[3])[1]

====
